---- MODULE Spec2Model ----
(***************************************************************************)
(* Shortcut mixin (spyder/api/shortcuts.py) and remote-client installer    *)
(* command (spyder/plugins/remoteclient/utils/installation.py).            *)
(*                                                                         *)
(* State: the configuration store of shortcuts (CONF), the process-wide    *)
(* list SHORTCUTS_FOR_WIDGETS_DATA, the QShortcut objects parented to each *)
(* widget, and the record of the last call with its outcome.               *)
(***************************************************************************)
EXTENDS Integers, Sequences, FiniteSets, TLC

VARIABLES
    store,                      \* CONF: <<context, name, plugin_name>> -> key string
    SHORTCUTS_FOR_WIDGETS_DATA, \* list of ShortcutData records
    attached,                   \* widget -> sequence of QShortcut objects parented to it
    last,                       \* the last call: what it was and its outcome
    watch,                      \* history: the store key under observation (or None)
    watched                     \* history: the latest set_shortcut call on that key

vars == <<store, SHORTCUTS_FOR_WIDGETS_DATA, attached, last, watch, watched>>

----------------------------------------------------------------------------
(* Bounds and the small input sets.                                        *)

MaxShortcuts == 2   \* QShortcut objects created in one run

None == "None"
OK == "ok"
NoOptionError == "NoOptionError"
NotImplementedError == "NotImplementedError"

Names == {"run cell", "copy"}
Contexts == {"editor", "ipython_console"}
Plugins == {None, "third_party"}
KeyStrs == {"Ctrl+Return", "ctrl+return", "F9"}
Callables == {"cb"}
Platforms == {"win", "linux", "darwin", "win32"}

\* The widgets: the editor plugin widget, a code editor inside it, the console.
Widgets == {"editor", "codeeditor", "console"}
Mixins == {"editor", "console"}
Targets == {None, "editor", "console"}   \* the widget argument of a registration
Children == [w \in Widgets |-> IF w = "editor" THEN {"codeeditor"} ELSE {}]
Subtree(w) == {w} \cup Children[w]

CONF_SECTION == [w \in Mixins |-> IF w = "editor" THEN "editor" ELSE "ipython_console"]

Keys == Contexts \X Names \X Plugins
Ctxs == Contexts \cup {None}           \* the context argument: a context or None

\* The store key a call of the mixin is about.
KeyOf(self, name, context, plugin_name) ==
    <<IF context = None THEN CONF_SECTION[self] ELSE context, name, plugin_name>>

\* Configurations the application can start with: default bindings exist for
\* some (context, name[, plugin]) keys and not for others.
DefaultStores ==
    { [k \in {<<"editor", "run cell", None>>, <<"ipython_console", "copy", None>>}
          |-> IF k[2] = "copy" THEN "F9" ELSE "Ctrl+Return"],
      [k \in {<<"editor", "run cell", None>>, <<"editor", "copy", "third_party">>}
          |-> IF k[2] = "copy" THEN "F9" ELSE "ctrl+return"] }

----------------------------------------------------------------------------
(* External collaborators.                                                 *)

\* CONF.get_shortcut(context, name, plugin_name)
CONF_get_shortcut(st, context, name, plugin_name) ==
    LET k == <<context, name, plugin_name>>
    IN  IF k \in DOMAIN st
        THEN [ret |-> st[k], err |-> OK]
        ELSE [ret |-> None, err |-> NoOptionError]

\* CONF.set_shortcut(context, name, keystr, plugin_name)
CONF_set_shortcut(st, context, name, keystr, plugin_name) ==
    LET k == <<context, name, plugin_name>>
    IN  IF k \in DOMAIN st
        THEN [store |-> [st EXCEPT ![k] = keystr], err |-> OK]
        ELSE [store |-> st, err |-> NoOptionError]

\* ShortcutData(qobject=..., name=..., context=...): compared by value.
ShortcutData(qobject, name, context) ==
    [qobject |-> qobject, name |-> name, context |-> context]

\* QKeySequence(keystr): the parsed key chord; modifier and key names are
\* matched without regard to case.
QKeySequence(keystr) ==
    IF keystr \in {"Ctrl+Return", "ctrl+return"} THEN "CTRL|Return" ELSE "F9"

Chords == {QKeySequence(s) : s \in KeyStrs}

\* A QShortcut object: its key, the slot connected to activated, its context.
QShortcut(key, triggered, context) ==
    [key |-> key, activated |-> triggered, context |-> context]

----------------------------------------------------------------------------
(* SpyderShortcutsMixin. w is the state the call starts in; the result is  *)
(* the state it ends in, the value returned and the error raised.          *)

World == [store |-> store, inventory |-> SHORTCUTS_FOR_WIDGETS_DATA, attached |-> attached]

\* (variant) the context is passed on as given, None included
resolve_context_undefaulted(self, context) ==
    context

\* context = self.CONF_SECTION if context is None else context
resolve_context(self, context) ==
    IF context = None THEN CONF_SECTION[self] ELSE context

\* (variant) the store's error is caught and an empty result returned
get_shortcut_intercepting(w, self, name, context, plugin_name) ==
    LET ctx == IF context = None THEN CONF_SECTION[self] ELSE context
        r == CONF_get_shortcut(w.store, ctx, name, plugin_name)
    IN  [world |-> w, ret |-> r.ret, err |-> OK]

get_shortcut(w, self, name, context, plugin_name) ==
    LET ctx == resolve_context(self, context)
        r == CONF_get_shortcut(w.store, ctx, name, plugin_name)
    IN  [world |-> w, ret |-> r.ret, err |-> r.err]

\* (variant) name and shortcut handed to the store in the mixin's own order
set_shortcut_swapped(w, self, shortcut, name, context, plugin_name) ==
    LET ctx == IF context = None THEN CONF_SECTION[self] ELSE context
        r == CONF_set_shortcut(w.store, ctx, shortcut, name, plugin_name)
    IN  [world |-> [w EXCEPT !.store = r.store], ret |-> None, err |-> r.err]

\* (variant) a missing option is created instead of the error being raised
set_shortcut_creating(w, self, shortcut, name, context, plugin_name) ==
    LET ctx == IF context = None THEN CONF_SECTION[self] ELSE context
        k == <<ctx, name, plugin_name>>
    IN  [world |-> [w EXCEPT !.store =
                        [x \in DOMAIN w.store \cup {k} |->
                            IF x = k THEN shortcut ELSE w.store[x]]],
         ret |-> None, err |-> OK]

\* (variant) the shortcuts already on the widgets follow the new sequence
set_shortcut_rebinding(w, self, shortcut, name, context, plugin_name) ==
    LET ctx == IF context = None THEN CONF_SECTION[self] ELSE context
        r == CONF_set_shortcut(w.store, ctx, name, shortcut, plugin_name)
    IN  [world |-> [store |-> r.store,
                    inventory |-> w.inventory,
                    attached |-> [x \in Widgets |->
                        [i \in 1..Len(w.attached[x]) |->
                            [w.attached[x][i] EXCEPT !.key =
                                IF r.err = OK THEN QKeySequence(shortcut) ELSE @]]]],
         ret |-> None, err |-> r.err]

set_shortcut(w, self, shortcut, name, context, plugin_name) ==
    LET ctx == resolve_context(self, context)
        r == CONF_set_shortcut(w.store, ctx, name, shortcut, plugin_name)
    IN  [world |-> [w EXCEPT !.store = r.store], ret |-> None, err |-> r.err]

\* (variant) setContext left out: a QShortcut starts as Qt.WindowShortcut
attach_shortcut_window(att, wid, keystr, triggered) ==
    [att EXCEPT ![wid] =
        Append(@, QShortcut(QKeySequence(keystr), triggered, "WindowShortcut"))]

\* (variant) no second QShortcut for a key and slot the widget already has
attach_shortcut_once(att, wid, keystr, triggered) ==
    LET qsc == QShortcut(QKeySequence(keystr), triggered, "WidgetWithChildrenShortcut")
    IN  IF \E i \in 1..Len(att[wid]) : att[wid][i] = qsc
        THEN att ELSE [att EXCEPT ![wid] = Append(@, qsc)]

\* qsc = QShortcut(QKeySequence(keystr), widget); connect; setContext
attach_shortcut(att, wid, keystr, triggered) ==
    [att EXCEPT ![wid] =
        Append(@, QShortcut(QKeySequence(keystr), triggered, "WidgetWithChildrenShortcut"))]

\* (variant) the record is appended without the membership test
track_shortcut_always(inv, data) ==
    Append(inv, data)

\* if data not in SHORTCUTS_FOR_WIDGETS_DATA: SHORTCUTS_FOR_WIDGETS_DATA.append(data)
track_shortcut(inv, data) ==
    IF \E i \in 1..Len(inv) : inv[i] = data THEN inv ELSE Append(inv, data)

\* (variant) the record is kept before the sequence is looked up
register_shortcut_for_widget_tracking_first(w, self, name, triggered, widget, context) ==
    LET ctx == IF context = None THEN CONF_SECTION[self] ELSE context
        wid == IF widget = None THEN self ELSE widget
        g == CONF_get_shortcut(w.store, ctx, name, None)
        inv == IF \E i \in 1..Len(w.inventory) :
                     w.inventory[i] = ShortcutData(None, name, ctx)
               THEN w.inventory
               ELSE Append(w.inventory, ShortcutData(None, name, ctx))
    IN  IF g.err # OK
        THEN [world |-> [w EXCEPT !.inventory = inv], ret |-> None, err |-> g.err]
        ELSE [world |-> [store |-> w.store,
                         attached |-> [w.attached EXCEPT ![wid] =
                             Append(@, QShortcut(QKeySequence(g.ret), triggered,
                                                 "WidgetWithChildrenShortcut"))],
                         inventory |-> inv],
              ret |-> None, err |-> OK]

register_shortcut_for_widget(w, self, name, triggered, widget, context) ==
    LET ctx == resolve_context(self, context)
        wid == IF widget = None THEN self ELSE widget
        g == get_shortcut(w, self, name, ctx, None)
    IN  IF g.err # OK
        THEN [world |-> w, ret |-> None, err |-> g.err]
        ELSE [world |-> [store |-> w.store,
                         attached |-> attach_shortcut(w.attached, wid, g.ret, triggered),
                         inventory |-> track_shortcut(w.inventory,
                                                      ShortcutData(None, name, ctx))],
              ret |-> None, err |-> OK]

\* The QShortcut objects of the widgets, each as <<widget, index>>.
Shortcuts(att) == UNION { {<<wid, i>> : i \in 1..Len(att[wid])} : wid \in Widgets }

\* A key press of chord while focus is on the widget focus. A QShortcut is
\* a candidate when its key matches and its context admits the focus
\* widget; with one candidate its activated signal is emitted once, with
\* several the press is ambiguous and activatedAmbiguously is emitted
\* instead, which nothing is connected to.
Candidates(att, chord, focus) ==
    { c \in Shortcuts(att) :
        /\ att[c[1]][c[2]].key = chord
        /\ \/ att[c[1]][c[2]].context = "WindowShortcut"
           \/ /\ att[c[1]][c[2]].context = "WidgetWithChildrenShortcut"
              /\ focus \in Subtree(c[1]) }

key_press(att, chord, focus) ==
    LET cs == Candidates(att, chord, focus)
    IN  [cb \in Callables |->
            IF Cardinality(cs) = 1 /\ \E c \in cs : att[c[1]][c[2]].activated = cb
            THEN 1 ELSE 0]

----------------------------------------------------------------------------
(* installation.py                                                         *)

SPYDER_KERNELS_REQVER == ">=3.1.0,<3.2.0"
PACKAGE_NAME == "spyder-remote-services"
PACKAGE_VERSION == "0.1.3"
SCRIPT_URL ==
    "https://raw.githubusercontent.com/spyder-ide/" \o PACKAGE_NAME \o "/master/scripts"

\* (variant) the two versions in the other order
get_installer_command_swapped(platform) ==
    IF platform = "win"
    THEN [cmd |-> <<>>, err |-> NotImplementedError]
    ELSE [cmd |-> << "\"${SHELL}\" <(curl -L ", SCRIPT_URL, "/installer.sh) \"",
                     SPYDER_KERNELS_REQVER, "\" \"", PACKAGE_VERSION, "\"" >>,
          err |-> OK]

\* The f-string as the sequence of its literal and substituted parts.
get_installer_command(platform) ==
    IF platform = "win"
    THEN [cmd |-> <<>>, err |-> NotImplementedError]
    ELSE [cmd |-> << "\"${SHELL}\" <(curl -L ", SCRIPT_URL, "/installer.sh) \"",
                     PACKAGE_VERSION, "\" \"", SPYDER_KERNELS_REQVER, "\"" >>,
          err |-> OK]

----------------------------------------------------------------------------
(* The calls.                                                              *)

NoCalls == [cb \in Callables |-> 0]
NotCalled == [called |-> FALSE, shortcut |-> None]

Outcome(op, ret, err, cmd, fired) ==
    [op |-> op, ret |-> ret, err |-> err, cmd |-> cmd, fired |-> fired]

TotalShortcuts == Len(attached["editor"]) + Len(attached["codeeditor"]) + Len(attached["console"])

Init ==
    /\ store \in DefaultStores
    /\ SHORTCUTS_FOR_WIDGETS_DATA = <<>>
    /\ attached = [w \in Widgets |-> <<>>]
    /\ last = Outcome("none", None, OK, <<>>, NoCalls)
    /\ watch = None
    /\ watched = NotCalled

\* The same program started with one store key under observation.
InitStore ==
    /\ store \in DefaultStores
    /\ SHORTCUTS_FOR_WIDGETS_DATA = <<>>
    /\ attached = [w \in Widgets |-> <<>>]
    /\ last = Outcome("none", None, OK, <<>>, NoCalls)
    /\ watch \in Keys
    /\ watched = NotCalled

GetShortcut(self, name, context, plugin_name) ==
    LET r == get_shortcut(World, self, name, context, plugin_name)
    IN  /\ last' = Outcome("get_shortcut", r.ret, r.err, <<>>, NoCalls)
        /\ store' = r.world.store
        /\ SHORTCUTS_FOR_WIDGETS_DATA' = r.world.inventory
        /\ attached' = r.world.attached
        /\ UNCHANGED <<watch, watched>>

SetShortcut(self, shortcut, name, context, plugin_name) ==
    LET r == set_shortcut(World, self, shortcut, name, context, plugin_name)
        key == KeyOf(self, name, context, plugin_name)
    IN  /\ last' = Outcome("set_shortcut", r.ret, r.err, <<>>, NoCalls)
        /\ store' = r.world.store
        /\ SHORTCUTS_FOR_WIDGETS_DATA' = r.world.inventory
        /\ attached' = r.world.attached
        /\ watched' = IF key = watch THEN [called |-> TRUE, shortcut |-> shortcut]
                                     ELSE watched
        /\ UNCHANGED watch

RegisterShortcutForWidget(self, name, triggered, widget, context) ==
    LET r == register_shortcut_for_widget(World, self, name, triggered, widget, context)
    IN  /\ TotalShortcuts < MaxShortcuts
        /\ last' = Outcome("register_shortcut_for_widget", r.ret, r.err, <<>>, NoCalls)
        /\ store' = r.world.store
        /\ SHORTCUTS_FOR_WIDGETS_DATA' = r.world.inventory
        /\ attached' = r.world.attached
        /\ UNCHANGED <<watch, watched>>

KeyPress(chord, focus) ==
    /\ last' = Outcome("key_press", None, OK, <<>>, key_press(attached, chord, focus))
    /\ UNCHANGED <<store, SHORTCUTS_FOR_WIDGETS_DATA, attached, watch, watched>>

GetInstallerCommand(platform) ==
    LET r == get_installer_command(platform)
    IN  /\ last' = Outcome("get_installer_command", None, r.err, r.cmd, NoCalls)
        /\ UNCHANGED <<store, SHORTCUTS_FOR_WIDGETS_DATA, attached, watch, watched>>

Next ==
    \/ \E self \in Mixins, name \in Names, context \in Ctxs,
          plugin_name \in Plugins :
            GetShortcut(self, name, context, plugin_name)
    \/ \E self \in Mixins, shortcut \in KeyStrs, name \in Names,
          context \in Ctxs, plugin_name \in Plugins :
            SetShortcut(self, shortcut, name, context, plugin_name)
    \/ \E self \in Mixins, name \in Names, triggered \in Callables, widget \in Targets,
          context \in Ctxs :
            RegisterShortcutForWidget(self, name, triggered, widget, context)
    \/ \E chord \in Chords, focus \in Widgets : KeyPress(chord, focus)
    \/ \E platform \in Platforms : GetInstallerCommand(platform)

Spec == Init /\ [][Next]_vars

\* The calls that reach the configuration store or no state at all.
NextStore ==
    \/ \E self \in Mixins, name \in Names, context \in Ctxs,
          plugin_name \in Plugins :
            GetShortcut(self, name, context, plugin_name)
    \/ \E self \in Mixins, shortcut \in KeyStrs, name \in Names,
          context \in Ctxs, plugin_name \in Plugins :
            SetShortcut(self, shortcut, name, context, plugin_name)
    \/ \E platform \in Platforms : GetInstallerCommand(platform)

SpecStore == InitStore /\ [][NextStore]_vars

----------------------------------------------------------------------------
(* Properties. A property of a call is stated on the steps: whenever a     *)
(* step is the call with some arguments, the outcome is the stated one     *)
(* (written "outcome \/ ~call", the outcome first).                        *)

Records(inv, name, context) ==
    { i \in 1..Len(inv) : inv[i].name = name /\ inv[i].context = context }

\* C1: the inventory never holds two records with the same (name, context),
\* whatever get_shortcut, set_shortcut and register_shortcut_for_widget
\* calls were made.
C1_NoDuplicateRecords ==
    \A name \in Names, context \in Contexts :
        Cardinality(Records(SHORTCUTS_FOR_WIDGETS_DATA, name, context)) <= 1

\* Two registrations were made and the inventory holds one record: they had
\* the same (name, context).
C1_RegisteredTwice ==
    /\ TotalShortcuts = 2
    /\ Len(SHORTCUTS_FOR_WIDGETS_DATA) = 1

\* C2 as stated: a get_shortcut on a triple returns the sequence of the
\* latest set_shortcut call made on that triple, for every triple.
C2_WriteThenReadAnyTriple ==
    [][last'.op = "get_shortcut" /\ watched.called =>
        \A self \in Mixins, name \in Names, context \in Ctxs, plugin_name \in Plugins :
            \/ KeyOf(self, name, context, plugin_name) # watch
            \/ (last'.err = OK /\ last'.ret = watched.shortcut)
            \/ ~GetShortcut(self, name, context, plugin_name)]_vars

\* C2 amended: for every triple that has an entry in the configuration
\* store, a get_shortcut on it returns the sequence of the latest
\* set_shortcut call made on it.
C2_WriteThenRead ==
    [][last'.op = "get_shortcut" /\ watched.called /\ watch \in DOMAIN store =>
        \A self \in Mixins, name \in Names, context \in Ctxs, plugin_name \in Plugins :
            \/ KeyOf(self, name, context, plugin_name) # watch
            \/ (last'.err = OK /\ last'.ret = watched.shortcut)
            \/ ~GetShortcut(self, name, context, plugin_name)]_vars

\* A set_shortcut on the observed key wrote a sequence no key had by
\* default, and a get_shortcut then returned it.
C2_ReadBack ==
    /\ watch \in DOMAIN store
    /\ watched.called
    /\ watched.shortcut = "ctrl+return"
    /\ \A k \in DOMAIN store : store[k] = "ctrl+return" => k = watch
    /\ \A d \in DefaultStores : DOMAIN d = DOMAIN store => d[watch] # "ctrl+return"
    /\ last.op = "get_shortcut"
    /\ last.ret = "ctrl+return"

\* C3 as stated: a get_shortcut on a (name, context) pair that no
\* set_shortcut call was made on fails with NoOptionError.
C3_UnsetPairNotFound ==
    [][last'.op = "get_shortcut" /\ ~watched.called =>
        \A self \in Mixins, name \in Names, context \in Ctxs :
            \/ KeyOf(self, name, context, None) # watch
            \/ last'.err = NoOptionError
            \/ ~GetShortcut(self, name, context, None)]_vars

\* C3 amended: a get_shortcut on a key that has no entry in the
\* configuration store fails with NoOptionError and returns nothing; the
\* mixin does not intercept the error.
C3_AbsentKeyNotFound ==
    [][last'.op = "get_shortcut" =>
        \A self \in Mixins, name \in Names, context \in Ctxs, plugin_name \in Plugins :
            \/ KeyOf(self, name, context, plugin_name) \in DOMAIN store
            \/ (last'.err = NoOptionError /\ last'.ret = None)
            \/ ~GetShortcut(self, name, context, plugin_name)]_vars

\* A get_shortcut has failed with NoOptionError.
C3_GetFailed ==
    /\ last.op = "get_shortcut"
    /\ last.err = NoOptionError

\* C4: set_shortcut never changes the set of keys of the store; on a key
\* that is absent it fails with NoOptionError and leaves the store as it was.
C4_SetNeverCreates ==
    [][last'.op = "set_shortcut" =>
        /\ DOMAIN store' = DOMAIN store
        /\ \A self \in Mixins, shortcut \in KeyStrs, name \in Names, context \in Ctxs,
              plugin_name \in Plugins :
            \/ KeyOf(self, name, context, plugin_name) \in DOMAIN store
            \/ (last'.err = NoOptionError /\ store' = store)
            \/ ~SetShortcut(self, shortcut, name, context, plugin_name)]_vars

\* A set_shortcut on the observed key, which the store does not have, failed.
C4_SetFailed ==
    /\ last.op = "set_shortcut"
    /\ last.err = NoOptionError
    /\ watched.called
    /\ watch \notin DOMAIN store

\* C5: in every state, a call that leaves context out ends in the same
\* state with the same result and the same error as the call with
\* context = self.CONF_SECTION, and the record a registration without
\* context keeps carries that section.
C5_ContextDefaulting ==
    \A self \in Mixins, name \in Names :
        /\ \A plugin_name \in Plugins :
            /\ get_shortcut(World, self, name, None, plugin_name)
                 = get_shortcut(World, self, name, CONF_SECTION[self], plugin_name)
            /\ \A shortcut \in KeyStrs :
                 set_shortcut(World, self, shortcut, name, None, plugin_name)
                   = set_shortcut(World, self, shortcut, name, CONF_SECTION[self],
                                  plugin_name)
        /\ \A triggered \in Callables, widget \in Targets :
            LET r == register_shortcut_for_widget(World, self, name, triggered, widget, None)
            IN  /\ r = register_shortcut_for_widget(World, self, name, triggered, widget,
                                                    CONF_SECTION[self])
                /\ r.err = OK => Records(r.world.inventory, name, CONF_SECTION[self]) # {}

\* The console registered "copy", which only its own section binds, on
\* itself.
C5_ConsoleRegistered ==
    /\ last.op = "register_shortcut_for_widget"
    /\ last.err = OK
    /\ Len(attached["console"]) = 1
    /\ Records(SHORTCUTS_FOR_WIDGETS_DATA, "copy", CONF_SECTION["console"]) # {}

\* C6 as stated: for every shortcut object a registration put on a widget
\* W, a press of its key sequence with the focus in W's subtree calls its
\* slot exactly once, and any other press calls it zero times.
C6_EveryPressFiresOnce ==
    [][last'.op = "key_press" =>
        \A chord \in Chords, focus \in Widgets :
            \/ \A c \in Shortcuts(attached) :
                 LET qsc == attached[c[1]][c[2]]
                 IN  last'.fired[qsc.activated] =
                        IF qsc.key = chord /\ focus \in Subtree(c[1]) THEN 1 ELSE 0
            \/ ~KeyPress(chord, focus)]_vars

\* C6 amended: a press of the key sequence of a shortcut object on W with
\* the focus in W's subtree calls its slot exactly once when no other
\* shortcut object has that key sequence and the focus in its widget's
\* subtree; a press that no shortcut object connected to cb matches in key
\* sequence and focus calls cb zero times.
C6_SolePressFiresOnce ==
    [][last'.op = "key_press" =>
        \A chord \in Chords, focus \in Widgets :
            \/ LET hit == { c \in Shortcuts(attached) :
                              /\ attached[c[1]][c[2]].key = chord
                              /\ focus \in Subtree(c[1]) }
               IN  /\ \A c \in hit :
                        hit = {c} => last'.fired[attached[c[1]][c[2]].activated] = 1
                   /\ \A cb \in Callables :
                        (\A c \in hit : attached[c[1]][c[2]].activated # cb)
                            => last'.fired[cb] = 0
            \/ ~KeyPress(chord, focus)]_vars

\* A key press has called the slot once.
C6_Fired ==
    /\ last.op = "key_press"
    /\ \E cb \in Callables : last.fired[cb] = 1

\* C7: a registration of a (context, name) the store does not bind fails
\* with NoOptionError, with no shortcut object attached and no record kept.
C7_UndefinedBindingNoEffect ==
    [][last'.op = "register_shortcut_for_widget" =>
        \A self \in Mixins, name \in Names, triggered \in Callables, widget \in Targets,
           context \in Ctxs :
            \/ KeyOf(self, name, context, None) \in DOMAIN store
            \/ /\ last'.err = NoOptionError
               /\ attached' = attached
               /\ SHORTCUTS_FOR_WIDGETS_DATA' = SHORTCUTS_FOR_WIDGETS_DATA
            \/ ~RegisterShortcutForWidget(self, name, triggered, widget, context)]_vars

\* A registration failed after another had succeeded.
C7_RegistrationFailed ==
    /\ last.op = "register_shortcut_for_widget"
    /\ last.err = NoOptionError
    /\ TotalShortcuts = 1
    /\ Len(SHORTCUTS_FOR_WIDGETS_DATA) = 1

\* C9: every successful registration appends one new shortcut object, for
\* the sequence the store has then, to the target widget, and leaves one
\* record of its (name, context) in the inventory; no other step changes
\* the shortcut objects.
C9_OneObjectPerRegistration ==
    [][IF last'.op = "register_shortcut_for_widget" /\ last'.err = OK
       THEN \A self \in Mixins, name \in Names, triggered \in Callables,
               widget \in Targets, context \in Ctxs :
                \/ /\ KeyOf(self, name, context, None) \in DOMAIN store
                   /\ attached' =
                        [attached EXCEPT ![IF widget = None THEN self ELSE widget] =
                            Append(@, QShortcut(
                                QKeySequence(store[KeyOf(self, name, context, None)]),
                                triggered, "WidgetWithChildrenShortcut"))]
                   /\ Cardinality(Records(SHORTCUTS_FOR_WIDGETS_DATA', name,
                                          KeyOf(self, name, context, None)[1])) = 1
                \/ ~RegisterShortcutForWidget(self, name, triggered, widget, context)
       ELSE attached' = attached]_vars

\* The editor carries two shortcut objects for one key sequence and slot
\* while the inventory holds one record.
C9_TwoObjectsOneRecord ==
    /\ Len(attached["editor"]) = 2
    /\ attached["editor"][1] = attached["editor"][2]
    /\ Len(SHORTCUTS_FOR_WIDGETS_DATA) = 1

\* C10: in every state, a set_shortcut leaves the shortcut objects of the
\* widgets and the inventory as they are, and when it is made on a key of
\* the store, get_shortcut on that key then returns the new sequence.
C10_BindingFixedAtRegistration ==
    \A self \in Mixins, shortcut \in KeyStrs, name \in Names, context \in Ctxs,
       plugin_name \in Plugins :
        LET r == set_shortcut(World, self, shortcut, name, context, plugin_name)
            g == get_shortcut(r.world, self, name, context, plugin_name)
        IN  /\ r.world.attached = attached
            /\ r.world.inventory = SHORTCUTS_FOR_WIDGETS_DATA
            /\ KeyOf(self, name, context, plugin_name) \in DOMAIN store
                => (r.err = OK /\ g.err = OK /\ g.ret = shortcut)

\* The one registered binding now resolves to F9 while every shortcut
\* object is still on Ctrl+Return.
C10_StaleShortcut ==
    /\ last.op = "set_shortcut"
    /\ Len(SHORTCUTS_FOR_WIDGETS_DATA) = 1
    /\ TotalShortcuts >= 1
    /\ \A c \in Shortcuts(attached) : attached[c[1]][c[2]].key = "CTRL|Return"
    /\ LET data == SHORTCUTS_FOR_WIDGETS_DATA[1]
       IN  store[<<data.context, data.name, None>>] = "F9"

\* C8: get_installer_command("win") raises NotImplementedError and returns
\* nothing; for any other platform it returns the one command that pipes
\* installer.sh to the shell with "0.1.3" and SPYDER_KERNELS_REQVER as its
\* two quoted arguments.
C8_InstallerCommand ==
    [][last'.op = "get_installer_command" =>
        \A platform \in Platforms :
            \/ IF platform = "win"
               THEN last'.err = NotImplementedError /\ last'.cmd = <<>>
               ELSE /\ last'.err = OK
                    /\ last'.cmd =
                        << "\"${SHELL}\" <(curl -L ",
                           "https://raw.githubusercontent.com/spyder-ide/spyder-remote-services/master/scripts",
                           "/installer.sh) \"", "0.1.3", "\" \"",
                           SPYDER_KERNELS_REQVER, "\"" >>
            \/ ~GetInstallerCommand(platform)]_vars

\* A command was returned.
C8_CommandReturned ==
    /\ last.op = "get_installer_command"
    /\ last.err = OK
    /\ Len(last.cmd) = 7

====
